---- MODULE Spec2Model ----
(***************************************************************************)
(* A model of the rust_polynomial crate: Monomial<T> (src/src/mono.rs) and *)
(* Polynomial<T> (src/src/poly.rs) over an integer coefficient type T.     *)
(* A Monomial is a record [value, exp]; a Polynomial is its mono_vec, a    *)
(* sequence of Monomials.                                                  *)
(***************************************************************************)
EXTENDS Integers, Sequences, FiniteSets, TLC

(***************************************************************************)
(* Bounds of the model.                                                    *)
(***************************************************************************)
\* coefficients of the polynomials kept in the state lie in -MaxVal..MaxVal
MaxVal == 2
\* exponents of the polynomials kept in the state lie in 0..MaxExp
MaxExp == 2
\* the division loop is followed for at most this many quotient terms
MaxQuot == 3
\* exponents of the right-hand operands of +, * and / lie in 0..MaxOpExp
MaxOpExp == 1
\* a division is started on a Polynomial of at most this many terms
MaxDivTerms == 2
\* roots(): every coefficient vector of RootMaxExp + 1 entries in
\* -RootMaxVal..RootMaxVal is tried
RootMaxVal == 2
RootMaxExp == 4
\* roots(): and every a x^4 + b x^2 + c with a, b, c in -EvenMaxVal..EvenMaxVal
EvenMaxVal == 4
\* try_from: strings of at most this many terms are parsed
MaxParseTerms == 2
\* the root search is followed on the Polynomials of degree at most SearchMaxExp
\* with coefficients in -SearchMaxVal..SearchMaxVal and a constant term in
\* -SearchMaxConst..SearchMaxConst
SearchMaxVal == 1
SearchMaxExp == 4
SearchMaxConst == 4

Vals == (0 - MaxVal)..MaxVal
Exps == 0..MaxExp

(***************************************************************************)
(* Monomial (mono.rs)                                                      *)
(***************************************************************************)
Mono(v, e) == [value |-> v, exp |-> e]

\* #[derive(Default)]: value 0, exp 0
MonoDefault == Mono(0, 0)

Abs(x) == IF x < 0 THEN 0 - x ELSE x

\* T's `/` on a primitive integer type: the quotient truncated towards zero
TruncDiv(a, b) ==
    IF (a >= 0) = (b > 0) THEN Abs(a) \div Abs(b) ELSE 0 - (Abs(a) \div Abs(b))

\* Neg, Mul and Div of Monomial
MonoNeg(m) == Mono(0 - m.value, m.exp)
MonoMul(a, b) == Mono(a.value * b.value, a.exp + b.exp)
MonoDiv(a, b) == Mono(TruncDiv(a.value, b.value), a.exp - b.exp)

\* impl Sum: the values added up, the exponent of the last item (0 if none)
RECURSIVE MonoSumFrom(_, _, _)
MonoSumFrom(s, i, acc) ==
    IF i > Len(s) THEN acc
    ELSE MonoSumFrom(s, i + 1, Mono(acc.value + s[i].value, s[i].exp))

MonoSum(s) == MonoSumFrom(s, 1, Mono(0, 0))

(***************************************************************************)
(* Polynomial (poly.rs)                                                    *)
(***************************************************************************)
\* collapse, first loop: the HashMap from exponent to the monomials holding it
group_by_exp(v) ==
    [e \in {v[i].exp : i \in DOMAIN v} |-> SelectSeq(v, LAMBDA m : m.exp = e)]

\* collapse: each bucket summed
SumBuckets(g) == {MonoSum(g[e]) : e \in DOMAIN g}

\* a retain that keeps every term, the variant the code is compared with
RetainKeepsZero(S) == S

\* collapse: retain(|m| m.get_value() != 0)
Retain(S) == {m \in S : m.value # 0}

\* an ascending sort, for comparison
RECURSIVE SortAscending(_)
SortAscending(S) ==
    IF S = {} THEN <<>>
    ELSE LET m == CHOOSE x \in S : \A y \in S : x.exp <= y.exp
         IN  <<m>> \o SortAscending(S \ {m})

\* collapse: sort_by exponent, descending
RECURSIVE SortByExpDesc(_)
SortByExpDesc(S) ==
    IF S = {} THEN <<>>
    ELSE LET m == CHOOSE x \in S : \A y \in S : x.exp >= y.exp
         IN  <<m>> \o SortByExpDesc(S \ {m})

collapse(v) == SortByExpDesc(Retain(SumBuckets(group_by_exp(v))))

\* Polynomial::new
PolyNew(v) == collapse(v)

\* max_exp: the first monomial, Monomial::default() when there is none
max_exp(p) == IF p = <<>> THEN MonoDefault ELSE p[1]

\* len
PolyLen(p) == Len(p)

\* push = push_raw + collapse
push(p, m) == collapse(Append(p, m))

\* find_by_exp: the first monomial with that exponent, else Monomial::default()
find_by_exp(p, e) ==
    LET hits == SelectSeq(p, LAMBDA m : m.exp = e)
    IN  IF hits = <<>> THEN MonoDefault ELSE hits[1]

\* the vectors built by div_mono and mul_mono, and the results
DivMonoRaw(p, rhs) == [i \in DOMAIN p |-> MonoDiv(p[i], rhs)]
div_mono(p, rhs) == PolyNew(DivMonoRaw(p, rhs))
MulMonoRaw(p, rhs) == [i \in DOMAIN p |-> MonoMul(p[i], rhs)]
mul_mono(p, rhs) == PolyNew(MulMonoRaw(p, rhs))

\* impl Default
PolyDefault == PolyNew(<<MonoDefault>>)

\* impl Neg
NegRaw(p) == [i \in DOMAIN p |-> MonoNeg(p[i])]
PolyNeg(p) == PolyNew(NegRaw(p))

\* impl Add
AddRaw(p, q) == p \o q
\* an addition that returns the concatenation as it is, for comparison
PolyAddNoCollapse(p, q) == p \o q
PolyAdd(p, q) == PolyNew(AddRaw(p, q))

\* impl Mul: every pair, self's monomials in the outer loop
MulRaw(p, q) ==
    [k \in 1..(Len(p) * Len(q)) |->
        MonoMul(p[((k - 1) \div Len(q)) + 1], q[((k - 1) % Len(q)) + 1])]

\* a product that keeps the exponents of self, for comparison
PolyMulKeepExp(p, q) ==
    PolyNew([k \in 1..(Len(p) * Len(q)) |->
        Mono(p[((k - 1) \div Len(q)) + 1].value * q[((k - 1) % Len(q)) + 1].value,
             p[((k - 1) \div Len(q)) + 1].exp)])

PolyMul(p, q) == PolyNew(MulRaw(p, q))

\* impl TryFrom<Vec<T>>: zero entries skipped, entry i of n gets exponent n-1-i
FromVecRaw(vec) ==
    LET monos == [i \in DOMAIN vec |-> Mono(vec[i], Len(vec) - i)]
    IN  SelectSeq(monos, LAMBDA m : m.value # 0)
PolyFromVec(vec) ==
    IF FromVecRaw(vec) = <<>> THEN PolyDefault ELSE PolyNew(FromVecRaw(vec))

(***************************************************************************)
(* Classification and root search (poly.rs).  T is a primitive integer     *)
(* type.  An f64 holds every integer the model meets exactly; sqrt and     *)
(* powf of such a value are the real root, and T::from(f64) (num's         *)
(* NumCast) is None for NaN and otherwise truncates towards zero.  The     *)
(* operators below compute those truncations in integer arithmetic.        *)
(***************************************************************************)
\* Option<Vec<T>>, and the panic that ends the call instead
RSome(v) == [kind |-> "Some", vals |-> v]
RNone == [kind |-> "None", vals |-> <<>>]
RPanic == [kind |-> "Panic", vals |-> <<>>]

\* equation_type
equation_type(p) ==
    LET e == max_exp(p).exp
    IN  IF e = 0 THEN "Invalid"
        ELSE IF e = 1 THEN "Linear"
        ELSE IF e > 1 /\ PolyLen(p) = 2 THEN "BigExp2Terms"
        ELSE IF e = 2 THEN "Quadratic"
        ELSE IF e = 4 /\ find_by_exp(p, 3).value = 0 /\ find_by_exp(p, 1).value = 0
             THEN "Biquadratic"
        ELSE "BigExp"

\* sort_by(partial_cmp) on a Vec<T>
RECURSIVE InsertSorted(_, _)
InsertSorted(x, s) ==
    IF s = <<>> THEN <<x>>
    ELSE IF x <= Head(s) THEN <<x>> \o s
    ELSE <<Head(s)>> \o InsertSorted(x, Tail(s))

RECURSIVE SortVals(_)
SortVals(s) == IF s = <<>> THEN <<>> ELSE InsertSorted(Head(s), SortVals(Tail(s)))

\* floor and ceiling of the real square root of n >= 0
FloorSqrt(n) == CHOOSE r \in 0..n : r * r <= n /\ (r + 1) * (r + 1) > n
CeilSqrt(n) == IF FloorSqrt(n) * FloorSqrt(n) = n THEN FloorSqrt(n) ELSE FloorSqrt(n) + 1

\* T::from(x.sqrt()) for an integer-valued x: None when x < 0 (sqrt is NaN)
SqrtToT(x) == IF x < 0 THEN RNone ELSE RSome(<<FloorSqrt(x)>>)

\* T::from((n + sign * sqrt(d)) / m) for d >= 0, m # 0: the real quotient
\* truncated towards zero
TruncSurd(n, sign, d, m) ==
    LET n2 == IF m > 0 THEN n ELSE 0 - n
        s2 == IF m > 0 THEN sign ELSE 0 - sign
        m2 == Abs(m)
        fl == n2 + (IF s2 = 1 THEN FloorSqrt(d) ELSE 0 - CeilSqrt(d))
        ce == n2 + (IF s2 = 1 THEN CeilSqrt(d) ELSE 0 - FloorSqrt(d))
    IN  IF fl >= 0 THEN fl \div m2 ELSE 0 - ((0 - ce) \div m2)

\* linear_root
linear_root(p) ==
    IF Len(p) > 2 \/ Len(p) < 1 THEN RPanic
    ELSE IF Len(p) = 1 THEN RSome(<<0>>)
    ELSE RSome(<<TruncDiv(MonoNeg(p[2]).value, p[1].value)>>)

\* quadratic_root, the branch b = 0: the first exponent set to 1, linear_root,
\* then the square root
QuadraticNoB(p) ==
    LET linear == [p EXCEPT ![1].exp = 1]
        lin == linear_root(linear)
        sq == SqrtToT(lin.vals[1])
    IN  IF lin.kind # "Some" THEN lin
        ELSE IF sq.kind # "Some" THEN RNone
        ELSE IF sq.vals[1] = 0 THEN RSome(<<0>>)
        ELSE RSome(<<0 - sq.vals[1], sq.vals[1]>>)

\* quadratic_root, the quadratic formula
QuadraticFormula(a, b, c) ==
    LET d == (b * b) - (4 * a * c)
        result_1 == TruncSurd(0 - b, 1, d, 2 * a)
        result_2 == TruncSurd(0 - b, 0 - 1, d, 2 * a)
    IN  IF d < 0 THEN RNone
        ELSE IF result_1 = result_2 THEN RSome(<<result_1>>)
        ELSE RSome(SortVals(<<result_1, result_2>>))

\* quadratic_root
quadratic_root(p) ==
    LET a == max_exp(p).value
        b == find_by_exp(p, 1).value
        c == find_by_exp(p, 0).value
    IN  IF b = 0 /\ c = 0 THEN RSome(<<0>>)
        ELSE IF b = 0 THEN QuadraticNoB(p)
        ELSE QuadraticFormula(a, b, c)

\* biquadratic_root: sqrt_converter takes the square root of the absolute value
sqrt_converter(x) == SqrtToT(Abs(x))

BiquadraticOfTwo(r1, r2) ==
    IF Abs(r1) = Abs(r2)
    THEN RSome(SortVals(<<0 - sqrt_converter(r1).vals[1], sqrt_converter(r1).vals[1]>>))
    ELSE RSome(SortVals(<<0 - sqrt_converter(r1).vals[1], 0 - sqrt_converter(r2).vals[1],
                          sqrt_converter(r1).vals[1], sqrt_converter(r2).vals[1]>>))

biquadratic_root(p) ==
    LET a == [find_by_exp(p, 4) EXCEPT !.exp = 2]
        b == [find_by_exp(p, 2) EXCEPT !.exp = 1]
        c == find_by_exp(p, 0)
        quadratic == PolyNew(<<a, b, c>>)
        quadrtic_result == quadratic_root(quadratic)
    IN  IF quadrtic_result.kind # "Some" THEN quadrtic_result
        ELSE IF Len(quadrtic_result.vals) = 1
        THEN LET result == SqrtToT(quadrtic_result.vals[1])
             IN  IF result.kind # "Some" THEN RNone
                 ELSE RSome(<<0 - result.vals[1], result.vals[1]>>)
        ELSE BiquadraticOfTwo(quadrtic_result.vals[1], quadrtic_result.vals[2])

\* x to the power n, n >= 0
RECURSIVE Pow(_, _)
Pow(x, n) == IF n = 0 THEN 1 ELSE x * Pow(x, n - 1)

\* T::from(v.powf(1 / n)) for an integer-valued v >= 0 and n >= 1: the real
\* n-th root, truncated
RootToT(v, n) == CHOOSE r \in 0..v : Pow(r, n) <= v /\ Pow(r + 1, n) > v

\* big_exp2_root
big_exp2_root(p) ==
    IF PolyLen(p) # 2 THEN RNone
    ELSE LET a == max_exp(p)
             b == find_by_exp(p, 0)
             value == TruncDiv(MonoNeg(b).value, a.value)
             result_val == RootToT(Abs(value), a.exp)
         IN  IF a.exp % 2 = 0 /\ value < 0 THEN RNone
             ELSE IF a.exp % 2 = 1
                  THEN RSome(<<IF value < 0 THEN 0 - result_val ELSE result_val>>)
             ELSE RSome(SortVals(<<0 - result_val, result_val>>))

\* candidates with the negations first, for comparison
find_divs_negative_first(value) ==
    LET pos == SelectSeq([v \in 1..value |-> v], LAMBDA v : value % v = 0)
    IN  [i \in DOMAIN pos |-> 0 - pos[i]] \o pos

\* find_divs: the divisors of value ascending, then their negations
find_divs(value) ==
    LET pos == SelectSeq([v \in 1..value |-> v], LAMBDA v : value % v = 0)
    IN  pos \o [i \in DOMAIN pos |-> 0 - pos[i]]

\* find_root, the inner loop for one candidate div: the running value `current`
\* when the sweep reaches exponent exp (Horner's rule from the top)
RECURSIVE HornerSum(_, _, _)
HornerSum(p, div, exp) ==
    find_by_exp(p, exp).value
        + (IF exp >= max_exp(p).exp THEN 0 ELSE HornerSum(p, div, exp + 1) * div)

\* find_root: div is a root when the last sum (at exponent 0) is zero
IsRootFound(p, div) == max_exp(p).exp >= 0 /\ HornerSum(p, div, 0) = 0

\* the sums pushed with exp instead of exp - 1, for comparison
DeflatedRawSameExp(p, div) ==
    [k \in 1..(max_exp(p).exp + 1) |->
        Mono(HornerSum(p, div, max_exp(p).exp - k + 1), max_exp(p).exp - k + 1)]

\* the coefficients pushed without the running value, for comparison
DeflatedRawNoCarry(p, div) ==
    [k \in 1..(max_exp(p).exp + 1) |->
        Mono(find_by_exp(p, max_exp(p).exp - k + 1).value, max_exp(p).exp - k)]

\* find_root: the polynomial built for a root, each sum pushed with exp - 1
DeflatedRaw(p, div) ==
    [k \in 1..(max_exp(p).exp + 1) |->
        Mono(HornerSum(p, div, max_exp(p).exp - k + 1), max_exp(p).exp - k)]

\* find_root: (Option<i64>, Option<Polynomial<i64>>), the first div that is a root
find_root(p) ==
    LET divs == find_divs(Abs(find_by_exp(p, 0).value))
        hits == SelectSeq(divs, LAMBDA d : IsRootFound(p, d))
    IN  IF hits = <<>> THEN [root |-> RNone, rest |-> RNone]
        ELSE LET target == collapse(DeflatedRaw(p, hits[1]))
             IN  IF target = PolyDefault
                 THEN [root |-> RSome(<<hits[1]>>), rest |-> RNone]
                 ELSE [root |-> RSome(<<hits[1]>>), rest |-> RSome(target)]

\* roots, and big_exp_root which calls it on the deflated polynomial
RECURSIVE roots(_)

BigExpGather(p) ==
    LET fr == find_root(p)
        sub == IF fr.rest.kind = "Some" THEN roots(fr.rest.vals) ELSE RNone
    IN  IF sub.kind = "Panic" THEN RPanic
        ELSE RSome(fr.root.vals \o sub.vals)

\* big_exp_root without its final sort_by, for comparison
big_exp_root_unsorted(p) ==
    LET g == BigExpGather(p)
    IN  IF g.kind = "Panic" THEN RPanic
        ELSE IF g.vals = <<>> THEN RNone
        ELSE RSome(g.vals)

big_exp_root(p) ==
    LET g == BigExpGather(p)
    IN  IF g.kind = "Panic" THEN RPanic
        ELSE IF g.vals = <<>> THEN RNone
        ELSE RSome(SortVals(g.vals))

roots(p) ==
    LET t == equation_type(p)
    IN  IF t = "Linear" THEN linear_root(p)
        ELSE IF t = "Quadratic" THEN quadratic_root(p)
        ELSE IF t = "Biquadratic" THEN biquadratic_root(p)
        ELSE IF t = "BigExp2Terms" THEN big_exp2_root(p)
        ELSE IF t = "BigExp" THEN big_exp_root(p)
        ELSE RNone

(***************************************************************************)
(* Parsing (mono.rs, poly.rs).  A string is a sequence of one-character    *)
(* strings.                                                                *)
(***************************************************************************)
Digits == {"0", "1", "2", "3", "4", "5", "6", "7", "8", "9"}
DigitVal(ch) ==
    CASE ch = "0" -> 0 [] ch = "1" -> 1 [] ch = "2" -> 2 [] ch = "3" -> 3
      [] ch = "4" -> 4 [] ch = "5" -> 5 [] ch = "6" -> 6 [] ch = "7" -> 7
      [] ch = "8" -> 8 [] ch = "9" -> 9

\* str::parse::<integer>: an optional sign and at least one digit, nothing else
RECURSIVE DigitsVal(_, _)
DigitsVal(str, acc) ==
    IF str = <<>> THEN acc ELSE DigitsVal(Tail(str), (acc * 10) + DigitVal(Head(str)))

ParseInt(str) ==
    LET signed == str # <<>> /\ Head(str) \in {"+", "-"}
        body == IF signed THEN Tail(str) ELSE str
    IN  IF str = <<>> THEN [ok |-> FALSE, val |-> 0, err |-> "Empty"]
        ELSE IF body = <<>> \/ \E k \in DOMAIN body : body[k] \notin Digits
             THEN [ok |-> FALSE, val |-> 0, err |-> "InvalidDigit"]
        ELSE [ok |-> TRUE,
              val |-> IF Head(str) = "-" THEN 0 - DigitsVal(body, 0) ELSE DigitsVal(body, 0),
              err |-> ""]

\* to_lowercase, replace(" ", ""), replace("^", "")
ToLower(str) == [k \in DOMAIN str |-> IF str[k] = "X" THEN "x" ELSE str[k]]
Remove(str, ch) == SelectSeq(str, LAMBDA c : c # ch)

\* str::split("x"): the pieces between the x's, always at least one
RECURSIVE SplitX(_, _, _)
SplitX(str, piece, done) ==
    IF str = <<>> THEN Append(done, piece)
    ELSE IF Head(str) = "x" THEN SplitX(Tail(str), <<>>, Append(done, piece))
    ELSE SplitX(Tail(str), Append(piece, Head(str)), done)

MonoOk(m) == [kind |-> "Ok", mono |-> m, msg |-> ""]
MonoErr(msg) == [kind |-> "Err", mono |-> MonoDefault, msg |-> msg]

\* impl TryFrom<&str> for Monomial
MonoTryFrom(value) ==
    LET clean_value == Remove(Remove(ToLower(value), " "), "^")
        split0 == SplitX(clean_value, <<>>, <<>>)
        split == IF split0[1] = <<"-">> THEN [split0 EXCEPT ![1] = <<"-", "1">>] ELSE split0
        base == ParseInt(split[1])
        exp == ParseInt(split[2])
    IN  IF ~base.ok /\ split[1] # <<>> THEN MonoErr("Not valid base")
        ELSE IF Len(split) = 1 THEN MonoOk(Mono(IF base.ok THEN base.val ELSE 1, 0))
        ELSE IF Len(split) > 2 THEN MonoErr("To much symbols")
        ELSE IF exp.ok THEN MonoOk(Mono(IF base.ok THEN base.val ELSE 1, exp.val))
        ELSE IF exp.err = "Empty" THEN MonoOk(Mono(IF base.ok THEN base.val ELSE 1, 1))
        ELSE MonoErr("Not valid exponent")

ParseOk(p) == [kind |-> "Ok", vals |-> p, msg |-> ""]
ParseErr(msg) == [kind |-> "Err", vals |-> <<>>, msg |-> msg]

\* impl TryFrom<&str> for Polynomial, the loop over char_indices from index i
\* (1-based here) with the monomials pushed so far and the buffer tmp_mono_split
RECURSIVE PolyParseLoop(_, _, _, _)
PolyParseLoop(cv, i, mono_vec, tmp) ==
    IF i > Len(cv) THEN ParseOk(PolyNew(mono_vec))
    ELSE IF i = 1 THEN PolyParseLoop(cv, i + 1, mono_vec, Append(tmp, cv[i]))
    ELSE IF cv[i] \in {"-", "+"}
         THEN LET m == MonoTryFrom(tmp)
              IN  IF m.kind = "Err" THEN ParseErr(m.msg)
                  ELSE PolyParseLoop(cv, i + 1, Append(mono_vec, m.mono), <<cv[i]>>)
    ELSE IF i = Len(cv)
         THEN LET m == MonoTryFrom(Append(tmp, cv[i]))
              IN  IF m.kind = "Err" THEN ParseErr(m.msg)
                  ELSE PolyParseLoop(cv, i + 1, Append(mono_vec, m.mono), Append(tmp, cv[i]))
    ELSE PolyParseLoop(cv, i + 1, mono_vec, Append(tmp, cv[i]))

\* impl TryFrom<&str> for Polynomial
PolyTryFrom(value) ==
    LET clean_value == Remove(value, " ")
    IN  IF Len(clean_value) = 1
        THEN LET m == MonoTryFrom(clean_value)
             IN  IF m.kind = "Err" THEN ParseErr(m.msg) ELSE ParseOk(PolyNew(<<m.mono>>))
        ELSE PolyParseLoop(clean_value, 1, <<>>, <<>>)

(***************************************************************************)
(* Sets the operations' inputs are drawn from.                             *)
(***************************************************************************)
Monos == {Mono(v, e) : v \in Vals, e \in Exps}
RawVecs == {<<>>} \cup {<<m>> : m \in Monos} \cup {<<m, n>> : m, n \in Monos}
OpMonos == {m \in Monos : m.exp <= MaxOpExp}
InBounds(p) == \A i \in DOMAIN p : p[i].value \in Vals /\ p[i].exp \in Exps
Operands ==
    {p \in {collapse(v) : v \in {w \in RawVecs : \A i \in DOMAIN w : w[i] \in OpMonos}} :
        InBounds(p)}
CoefVecs == UNION {[1..n -> Vals] : n \in 0..(MaxExp + 1)}

\* does the raw vector add up to nothing at every exponent
RECURSIVE SumAt(_, _)
SumAt(v, e) ==
    IF v = <<>> THEN 0
    ELSE (IF Head(v).exp = e THEN Head(v).value ELSE 0) + SumAt(Tail(v), e)
RawIsZero(v) == \A i \in DOMAIN v : SumAt(v, v[i].exp) = 0

(***************************************************************************)
(* The state: one Polynomial and the operations applied to it.             *)
(***************************************************************************)
VARIABLES
    poly,       \* mono_vec of the Polynomial the caller holds
    last,       \* the operation that produced it, kept when it is the zero expression
    zero_case,  \* whether the vector that operation handed to new() adds up to zero
    pc,         \* "idle", or where a call of div is: "div" (in the loop), "returned"
    dividend,   \* div's local: what is left of self
    divider,    \* div's local: rhs
    quotient,   \* div's local, then the quotient returned
    lhs,        \* an operator's left operand (self)
    rhs,        \* an operator's right operand
    res,        \* what the operator returned
    applied,    \* which operator was applied, "none" before
    eq,         \* the Polynomial equation_type() and roots() are called on
    eq_type,    \* what equation_type() returned, "NotCalled" before
    found,      \* what roots() returned, kind "NotCalled" before
    text,       \* the string handed to Polynomial::try_from
    terms,      \* the terms the string is made of: sign, coefficient, variable, exponent
    parsed,     \* what try_from returned, kind "NotCalled" before
    stack,      \* the Polynomials of the nested calls of roots(), the innermost last
    spc,        \* where the innermost call is: "roots", "div_loop", "found", "done"
    divs,       \* find_root's local: the candidates
    tried,      \* the candidates the 'div_loop has gone through without a root
    root,       \* find_root's local: Option<i64>
    target      \* find_root's local: the Polynomial kept for the root

objvars == <<poly, last, zero_case, pc, dividend, divider, quotient>>
lawvars == <<lhs, rhs, res, applied>>
rootvars == <<eq, eq_type, found>>
parsevars == <<text, terms, parsed>>
searchvars == <<stack, spc, divs, tried, root, target>>
vars == <<objvars, lawvars, rootvars, parsevars, searchvars>>

\* the variables of the other specifications, when one of them is not in use
ObjUnused ==
    /\ poly = <<>>
    /\ last = "none"
    /\ zero_case = FALSE
    /\ pc = "unused"
    /\ dividend = <<>>
    /\ divider = <<>>
    /\ quotient = <<>>

LawUnused ==
    /\ lhs = <<>>
    /\ rhs = <<>>
    /\ res = <<>>
    /\ applied = "none"

NotCalled == [kind |-> "NotCalled", vals |-> <<>>]

RootUnused ==
    /\ eq = <<>>
    /\ eq_type = "NotCalled"
    /\ found = NotCalled

SearchUnused ==
    /\ stack = <<>>
    /\ spc = "none"
    /\ divs = <<>>
    /\ tried = <<>>
    /\ root = RNone
    /\ target = <<>>

ParseNotCalled == [kind |-> "NotCalled", vals |-> <<>>, msg |-> ""]

ParseUnused ==
    /\ text = <<>>
    /\ terms = <<>>
    /\ parsed = ParseNotCalled

\* the operation recorded for a result built from the vector raw
LastOp(op, raw) == IF RawIsZero(raw) THEN op ELSE "other"

\* The caller's Polynomial comes from one of the constructors.
ConstructedByNew ==
    \E v \in RawVecs :
        /\ poly = PolyNew(v)
        /\ last = LastOp("new", v)
        /\ zero_case = RawIsZero(v)

ConstructedByDefault ==
    /\ poly = PolyDefault
    /\ last = "default"
    /\ zero_case = RawIsZero(<<MonoDefault>>)

ConstructedByFromVec ==
    \E vec \in CoefVecs :
        /\ poly = PolyFromVec(vec)
        /\ last = LastOp("from_vec", FromVecRaw(vec))
        /\ zero_case = RawIsZero(FromVecRaw(vec))

Init ==
    /\ ConstructedByNew \/ ConstructedByDefault \/ ConstructedByFromVec
    /\ pc = "idle"
    /\ dividend = <<>>
    /\ divider = <<>>
    /\ quotient = <<>>
    /\ LawUnused /\ RootUnused /\ ParseUnused /\ SearchUnused

\* what every operation that builds its result with Polynomial::new(raw) does
Produce(op, raw, result) ==
    /\ InBounds(result)
    /\ poly' = result
    /\ last' = LastOp(op, raw)
    /\ zero_case' = RawIsZero(raw)
    /\ UNCHANGED <<pc, dividend, divider, quotient, lawvars, rootvars, parsevars, searchvars>>

Push ==
    /\ pc = "idle"
    /\ \E m \in Monos : Produce("push", Append(poly, m), push(poly, m))

Neg ==
    /\ pc = "idle"
    /\ Produce("neg", NegRaw(poly), PolyNeg(poly))

Add ==
    /\ pc = "idle"
    /\ \E q \in Operands : Produce("add", AddRaw(poly, q), PolyAdd(poly, q))

Mul ==
    /\ pc = "idle"
    /\ \E q \in Operands : Produce("mul", MulRaw(poly, q), PolyMul(poly, q))

MulMono ==
    /\ pc = "idle"
    /\ \E m \in Monos : Produce("mul_mono", MulMonoRaw(poly, m), mul_mono(poly, m))

\* T's `/` panics on a zero divisor: the call returns nothing
DivMono ==
    /\ pc = "idle"
    /\ \E m \in Monos :
        /\ m.value # 0
        /\ Produce("div_mono", DivMonoRaw(poly, m), div_mono(poly, m))

(***************************************************************************)
(* impl Div for Polynomial: the long division, one loop iteration a step.  *)
(***************************************************************************)
\* a loop condition with > in place of >=, for comparison
DivLoopCondStrict(dd, dv) == max_exp(dd).exp > max_exp(dv).exp

\* while dividend.max_exp().get_exp() >= divider.max_exp().get_exp()
DivLoopCond(dd, dv) == max_exp(dd).exp >= max_exp(dv).exp

\* let result = dividend.max_exp() / divider.max_exp()
DivResult(dd, dv) == MonoDiv(max_exp(dd), max_exp(dv))

\* dividend = dividend + (divider.mul_mono(result)).neg()
DivNextDividend(dd, dv) == PolyAdd(dd, PolyNeg(mul_mono(dv, DivResult(dd, dv))))

\* self / rhs is called: dividend = self, quotient = Polynomial::default()
DivStart ==
    /\ pc = "idle"
    /\ PolyLen(poly) <= MaxDivTerms
    /\ \E d \in Operands :
        /\ pc' = "div"
        /\ dividend' = poly
        /\ divider' = d
        /\ quotient' = PolyDefault
        /\ last' = "div"
        /\ zero_case' = FALSE
        /\ UNCHANGED <<poly, lawvars, rootvars, parsevars, searchvars>>

\* one iteration of the while loop
DivStep ==
    /\ pc = "div"
    /\ DivLoopCond(dividend, divider)
    /\ max_exp(divider).value # 0
    /\ Len(quotient) < MaxQuot
    /\ InBounds(DivNextDividend(dividend, divider))
    /\ quotient' = Append(quotient, DivResult(dividend, divider))
    /\ dividend' = DivNextDividend(dividend, divider)
    /\ UNCHANGED <<poly, last, zero_case, pc, divider, lawvars, rootvars, parsevars, searchvars>>

\* the leading coefficient of the divider is zero: T's `/` panics
DivPanic ==
    /\ pc = "div"
    /\ DivLoopCond(dividend, divider)
    /\ max_exp(divider).value = 0
    /\ pc' = "panic"
    /\ UNCHANGED <<poly, last, zero_case, dividend, divider, quotient, lawvars, rootvars, parsevars, searchvars>>

\* the loop is left: quotient.collapse(); (quotient, dividend) is returned
DivReturn ==
    /\ pc = "div"
    /\ ~DivLoopCond(dividend, divider)
    /\ pc' = "returned"
    /\ zero_case' = RawIsZero(quotient)
    /\ quotient' = collapse(quotient)
    /\ UNCHANGED <<poly, last, dividend, divider, lawvars, rootvars, parsevars, searchvars>>

\* the caller goes on with the quotient
TakeQuotient ==
    /\ pc = "returned"
    /\ InBounds(quotient)
    /\ poly' = quotient
    /\ last' = LastOp("div_quotient", quotient)
    /\ pc' = "idle"
    /\ dividend' = <<>>
    /\ divider' = <<>>
    /\ quotient' = <<>>
    /\ UNCHANGED <<zero_case, lawvars, rootvars, parsevars, searchvars>>

\* the caller goes on with the remainder
TakeRemainder ==
    /\ pc = "returned"
    /\ poly' = dividend
    /\ last' = LastOp("div_remainder", dividend)
    /\ zero_case' = RawIsZero(dividend)
    /\ pc' = "idle"
    /\ dividend' = <<>>
    /\ divider' = <<>>
    /\ quotient' = <<>>
    /\ UNCHANGED <<lawvars, rootvars, parsevars, searchvars>>

\* after a panic the caller starts again from Polynomial::default()
Recover ==
    /\ pc = "panic"
    /\ pc' = "idle"
    /\ poly' = PolyDefault
    /\ last' = "default"
    /\ zero_case' = RawIsZero(<<MonoDefault>>)
    /\ dividend' = <<>>
    /\ divider' = <<>>
    /\ quotient' = <<>>
    /\ UNCHANGED <<lawvars, rootvars, parsevars, searchvars>>

Next ==
    \/ Push \/ Neg \/ Add \/ Mul \/ MulMono \/ DivMono
    \/ DivStart \/ DivStep \/ DivPanic \/ DivReturn \/ TakeQuotient \/ TakeRemainder
    \/ Recover

Spec == Init /\ [][Next]_vars

(***************************************************************************)
(* equation_type() and roots() applied to a Polynomial.                    *)
(***************************************************************************)
\* the Polynomials built from every coefficient vector within the bounds
DensePolys == {PolyFromVec(v) : v \in [1..(RootMaxExp + 1) -> (0 - RootMaxVal)..RootMaxVal]}

\* a x^4 + b x^2 + c with larger coefficients
EvenPolys ==
    {PolyNew(<<Mono(a, 4), Mono(b, 2), Mono(c, 0)>>) :
        a, b, c \in (0 - EvenMaxVal)..EvenMaxVal}

\* a Polynomial of degree at most 2 with one more term of exponent -1
NegExpPolys ==
    {push(p, Mono(v, 0 - 1)) :
        p \in {q \in DensePolys : max_exp(q).exp <= 2}, v \in {0 - 1, 1}}

RootInputs == DensePolys \cup EvenPolys \cup NegExpPolys

InitRoots ==
    /\ eq \in RootInputs
    /\ eq_type = "NotCalled"
    /\ found = NotCalled
    /\ ObjUnused /\ LawUnused /\ ParseUnused /\ SearchUnused

Classify ==
    /\ eq_type = "NotCalled"
    /\ eq_type' = equation_type(eq)
    /\ UNCHANGED <<eq, found, objvars, lawvars, parsevars, searchvars>>

Roots ==
    /\ found = NotCalled
    /\ found' = roots(eq)
    /\ UNCHANGED <<eq, eq_type, objvars, lawvars, parsevars, searchvars>>

NextRoots == Classify \/ Roots

SpecRoots == InitRoots /\ [][NextRoots]_vars

(***************************************************************************)
(* The operators applied to two Polynomials.                               *)
(***************************************************************************)
\* every Polynomial within the bounds
BoundedPolys == {PolyFromVec(v) : v \in [1..(MaxExp + 1) -> Vals]}

InitLaws ==
    /\ \E p \in BoundedPolys :
          \/ lhs = p /\ rhs = PolyDefault
          \/ lhs = PolyDefault /\ rhs = p
          \/ lhs = p /\ rhs = PolyNeg(p)
          \/ lhs = p /\ rhs \in Operands
    /\ res = <<>>
    /\ applied = "none"
    /\ ObjUnused /\ RootUnused /\ ParseUnused /\ SearchUnused

ApplyAdd ==
    /\ applied = "none"
    /\ res' = PolyAdd(lhs, rhs)
    /\ applied' = "add"
    /\ UNCHANGED <<lhs, rhs, objvars, rootvars, parsevars, searchvars>>

ApplyMul ==
    /\ applied = "none"
    /\ res' = PolyMul(lhs, rhs)
    /\ applied' = "mul"
    /\ UNCHANGED <<lhs, rhs, objvars, rootvars, parsevars, searchvars>>

\* the unary operator has no right operand
ApplyNeg ==
    /\ applied = "none"
    /\ rhs = PolyDefault
    /\ res' = PolyNeg(lhs)
    /\ applied' = "neg"
    /\ UNCHANGED <<lhs, rhs, objvars, rootvars, parsevars, searchvars>>

NextLaws == ApplyAdd \/ ApplyMul \/ ApplyNeg

SpecLaws == InitLaws /\ [][NextLaws]_vars

(***************************************************************************)
(* Polynomial::try_from applied to a string of the input grammar.          *)
(***************************************************************************)
\* the parts a term [sign][coefficient][x[^][exponent]] is written with
SignTexts == {<<>>, <<"+">>, <<"-">>}
CoefTexts == {<<>>, <<"2">>, <<"1", "2">>}
VarTexts == {<<>>, <<"x">>, <<"X">>, <<"x", "^">>}
ExpTexts == {<<>>, <<"2">>, <<"-", "2">>}

\* a term has a coefficient or a variable; an exponent needs a variable, and a
\* signed exponent is written after the ^
TermShapes ==
    {t \in [sign : SignTexts, coef : CoefTexts, var : VarTexts, exp : ExpTexts,
            space : BOOLEAN] :
        /\ t.coef # <<>> \/ t.var # <<>>
        /\ t.var = <<>> => t.exp = <<>>
        /\ t.var = <<"x", "^">> => t.exp # <<>>
        /\ t.var # <<"x", "^">> => t.exp # <<"-", "2">>
        /\ t.space => t.sign # <<>>}

\* the characters of a term: with space, a blank on either side of the sign
TermText(t) ==
    (IF t.space THEN <<" ">> \o t.sign \o <<" ">> ELSE t.sign)
        \o t.coef \o t.var \o t.exp

RECURSIVE Concat(_)
Concat(ts) == IF ts = <<>> THEN <<>> ELSE TermText(Head(ts)) \o Concat(Tail(ts))

\* the terms of a string: the first with or without a sign, the later ones signed
TermSeqs ==
    UNION {{ts \in [1..n -> TermShapes] : \A k \in 2..n : ts[k].sign # <<>>} :
              n \in 1..MaxParseTerms}

InitParse ==
    /\ terms \in TermSeqs
    /\ text = Concat(terms)
    /\ parsed = ParseNotCalled
    /\ ObjUnused /\ LawUnused /\ RootUnused /\ SearchUnused

Parse ==
    /\ parsed = ParseNotCalled
    /\ parsed' = PolyTryFrom(text)
    /\ UNCHANGED <<text, terms, objvars, lawvars, rootvars, searchvars>>

\* the same string handed to Monomial::try_from when it is a single term
ParseMono ==
    /\ parsed = ParseNotCalled
    /\ Len(terms) = 1
    /\ parsed' = LET m == MonoTryFrom(text)
                 IN  [kind |-> "Mono" \o m.kind, vals |-> <<m.mono>>, msg |-> m.msg]
    /\ UNCHANGED <<text, terms, objvars, lawvars, rootvars, searchvars>>

NextParse == Parse \/ ParseMono

SpecParse == InitParse /\ [][NextParse]_vars

(***************************************************************************)
(* roots() followed through big_exp_root: find_root's 'div_loop one        *)
(* candidate a step, and the nested call of roots() on the Polynomial kept *)
(* for the root.                                                           *)
(***************************************************************************)
SearchPolys ==
    {PolyFromVec(v) : v \in
        {w \in [1..(SearchMaxExp + 1) -> (0 - SearchMaxConst)..SearchMaxConst] :
            \A k \in 1..SearchMaxExp : w[k] \in (0 - SearchMaxVal)..SearchMaxVal}}

\* the Polynomial of the innermost call
Top == stack[Len(stack)]

InitSearch ==
    /\ \E p \in SearchPolys : stack = <<p>>
    /\ spc = "roots"
    /\ divs = <<>>
    /\ tried = <<>>
    /\ root = RNone
    /\ target = <<>>
    /\ ObjUnused /\ LawUnused /\ RootUnused /\ ParseUnused

\* roots() dispatches to big_exp_root, which calls find_root: the candidates
EnterBigExp ==
    /\ spc = "roots"
    /\ equation_type(Top) = "BigExp"
    /\ spc' = "div_loop"
    /\ divs' = find_divs(Abs(find_by_exp(Top, 0).value))
    /\ tried' = <<>>
    /\ root' = RNone
    /\ target' = PolyDefault
    /\ UNCHANGED <<stack, objvars, lawvars, rootvars, parsevars>>

\* roots() dispatches to a strategy that calls roots() no further
OtherStrategy ==
    /\ spc = "roots"
    /\ equation_type(Top) # "BigExp"
    /\ spc' = "done"
    /\ divs' = <<>>
    /\ tried' = <<>>
    /\ root' = RNone
    /\ target' = PolyDefault
    /\ UNCHANGED <<stack, objvars, lawvars, rootvars, parsevars>>

\* the candidate the next iteration of 'div_loop is for
NextDiv == divs[Len(tried) + 1]

\* one iteration of 'div_loop, the sum at exponent 0 is not zero: on to the next
TryDivMiss ==
    /\ spc = "div_loop"
    /\ Len(tried) < Len(divs)
    /\ ~IsRootFound(Top, NextDiv)
    /\ tried' = Append(tried, NextDiv)
    /\ UNCHANGED <<stack, spc, divs, root, target, objvars, lawvars, rootvars, parsevars>>

\* one iteration of 'div_loop, the sum at exponent 0 is zero: break 'div_loop
TryDivHit ==
    /\ spc = "div_loop"
    /\ Len(tried) < Len(divs)
    /\ IsRootFound(Top, NextDiv)
    /\ root' = RSome(<<NextDiv>>)
    /\ target' = collapse(DeflatedRaw(Top, NextDiv))
    /\ spc' = "found"
    /\ UNCHANGED <<stack, divs, tried, objvars, lawvars, rootvars, parsevars>>

\* the candidates are used up: find_root returns (None, None)
NoRootFound ==
    /\ spc = "div_loop"
    /\ Len(tried) = Len(divs)
    /\ spc' = "done"
    /\ UNCHANGED <<stack, divs, tried, root, target, objvars, lawvars, rootvars, parsevars>>

\* find_root returns the root; big_exp_root calls roots() on the rest, if any
Recurse ==
    /\ spc = "found"
    /\ IF target = PolyDefault
       THEN spc' = "done" /\ UNCHANGED stack
       ELSE spc' = "roots" /\ stack' = Append(stack, target)
    /\ UNCHANGED <<divs, tried, root, target, objvars, lawvars, rootvars, parsevars>>

NextSearch ==
    EnterBigExp \/ OtherStrategy \/ TryDivMiss \/ TryDivHit \/ NoRootFound \/ Recurse

SpecSearch == InitSearch /\ [][NextSearch]_vars

\* the step of TryDivHit, told by what it does to spc and root
FoundStep ==
    /\ spc = "div_loop"
    /\ Len(tried) < Len(divs)
    /\ IsRootFound(Top, NextDiv)
    /\ spc' = "found"
    /\ root' = RSome(<<NextDiv>>)

\* every step is a step of one sequential call: it is taken when it can be
SpecSearchLive ==
    /\ SpecSearch
    /\ WF_vars(EnterBigExp \/ OtherStrategy \/ TryDivMiss \/ NoRootFound \/ Recurse)
    /\ WF_<<spc, root>>(FoundStep)

(***************************************************************************)
(* Properties of the Polynomial and its operations.                        *)
(***************************************************************************)
\* the three canonical invariants: one term per exponent and sorted by exponent
\* strictly descending, no zero coefficient
Canonical(p) ==
    /\ \A i \in DOMAIN p : p[i].value # 0
    /\ \A i, j \in DOMAIN p : i < j => p[i].exp > p[j].exp

\* C1: after any sequence of public operations (new, push, negate, add, multiply,
\* mul_mono, div_mono and both outputs of divide when it returns) the term sequence
\* has at most one term per exponent, no zero coefficient, and is sorted by
\* exponent strictly descending.
C1_Canonical ==
    /\ Canonical(poly)
    /\ pc = "returned" => Canonical(quotient) /\ Canonical(dividend)

\* a division has returned a quotient of two terms and a remainder
C1_Witness ==
    /\ pc = "returned"
    /\ Len(quotient) >= 2
    /\ dividend # <<>>
    /\ last = "div"

\* the expression stands for zero: every coefficient it holds is zero
IsZeroExpr(p) == \A i \in DOMAIN p : p[i].value = 0

\* C2 as stated: the zero expression is always exactly the one term {0, 0} and
\* never the empty term sequence (Polynomial::default(), an all-zero or empty
\* coefficient vector, an arithmetic result that collapses to zero).
C2_ZeroIsOneTerm ==
    (pc = "idle" /\ (zero_case \/ IsZeroExpr(poly))) => poly = <<MonoDefault>>

\* C2 amended: the zero expression is always the empty term sequence and never
\* holds a term {0, 0}: whenever the vector an operation hands to new() adds up to
\* zero at every exponent (default(), an all-zero or empty coefficient vector,
\* p + (-p), ...), and whenever all coefficients are zero, mono_vec is empty;
\* parsing "0" gives the same value.
C2_ZeroIsEmpty ==
    /\ (pc = "idle" /\ (zero_case \/ IsZeroExpr(poly))) => poly = <<>>
    /\ PolyDefault = <<>>
    /\ PolyTryFrom(<<"0">>) = ParseOk(PolyDefault)
    /\ pc = "returned" /\ IsZeroExpr(dividend) => dividend = <<>>

\* an addition has cancelled every term
C2_Witness ==
    /\ pc = "idle"
    /\ last = "add"
    /\ zero_case
    /\ poly = <<>>

\* C3: for non-negative exponents and a non-zero divisor, whenever divide returns
\* (quotient, remainder): dividend == quotient * divisor + remainder, and the
\* remainder is the zero expression or has a max exponent strictly below the
\* divisor's.
C3_DivisionCorrect ==
    (pc = "returned" /\ divider # PolyDefault) =>
        /\ poly = PolyAdd(PolyMul(quotient, divider), dividend)
        /\ \/ dividend = PolyDefault
           \/ max_exp(dividend).exp < max_exp(divider).exp

\* a division by a divisor of two terms has returned a quotient of two terms and
\* a non-zero remainder
C3_Witness ==
    /\ pc = "returned"
    /\ Len(divider) = 2
    /\ Len(quotient) = 2
    /\ dividend # PolyDefault

\* C4: for a divisor with a non-zero leading coefficient (constant divisors and
\* leading coefficients that do not divide exactly included) the long division
\* terminates: each iteration of the loop eliminates the dividend's leading
\* term, so the dividend's max exponent strictly decreases.
C4_EachIterationLowersMaxExp ==
    [][(pc = "div" /\ pc' = "div" /\ max_exp(divider).value # 0)
          => max_exp(dividend').exp < max_exp(dividend).exp]_vars

(***************************************************************************)
(* Properties of equation_type() and roots().                              *)
(***************************************************************************)
Coef(p, e) == find_by_exp(p, e).value

\* the classification as the specification words it; where two of its cases
\* overlap either answer is accepted
StatedTypes(p) ==
    LET e == max_exp(p).exp
        two == IF e > 2 /\ Len(p) = 2 THEN {"BigExp2Terms"} ELSE {}
        biq == IF e = 4 /\ Coef(p, 3) = 0 /\ Coef(p, 1) = 0 THEN {"Biquadratic"} ELSE {}
    IN  IF e = 0 THEN {"Invalid"}
        ELSE IF e = 1 THEN {"Linear"}
        ELSE IF e = 2 THEN {"Quadratic"}
        ELSE IF two \cup biq # {} THEN two \cup biq
        ELSE {"BigExp"}

\* C5: equation_type returns Invalid for max exponent 0, Linear for 1, Quadratic
\* for 2 (for any term count), BigExp2Terms only when the max exponent is greater
\* than 2 and there are exactly two terms, Biquadratic for max exponent 4 with zero
\* coefficients at exponents 3 and 1, and BigExp in every other case.
C5_ClassificationAsStated ==
    eq_type # "NotCalled" => eq_type \in StatedTypes(eq)

\* a x^2 + b x + c with a # 0 and b # 0 and no other term
IsFullQuadratic(p) ==
    /\ \A i \in DOMAIN p : p[i].exp \in {0, 1, 2}
    /\ Coef(p, 2) # 0
    /\ Coef(p, 1) # 0

Discriminant(p) == (Coef(p, 1) * Coef(p, 1)) - (4 * Coef(p, 2) * Coef(p, 0))

\* both values of the quadratic formula are integers
HasIntegerRoots(p) ==
    LET d == Discriminant(p)
        s == FloorSqrt(d)
        m == Abs(2 * Coef(p, 2))
    IN  /\ d >= 0
        /\ s * s = d
        /\ ((0 - Coef(p, 1)) - s) % m = 0
        /\ ((0 - Coef(p, 1)) + s) % m = 0

\* the values of the quadratic formula, ascending, one value when they coincide
FormulaRoots(p) ==
    LET s == FloorSqrt(Discriminant(p))
        x1 == TruncDiv((0 - Coef(p, 1)) - s, 2 * Coef(p, 2))
        x2 == TruncDiv((0 - Coef(p, 1)) + s, 2 * Coef(p, 2))
    IN  IF x1 = x2 THEN <<x1>> ELSE IF x1 < x2 THEN <<x1, x2>> ELSE <<x2, x1>>

\* C6: for a x^2 + b x + c with a # 0, b # 0 and any c whose quadratic-formula
\* roots are integers, roots() returns exactly those two values sorted ascending
\* (one value when the discriminant is zero); with a negative discriminant
\* roots() returns no result.
C6_QuadraticRootsAsStated ==
    (found # NotCalled /\ IsFullQuadratic(eq)) =>
        /\ Discriminant(eq) < 0 => found = RNone
        /\ HasIntegerRoots(eq) => found = RSome(FormulaRoots(eq))

\* a u^2 + b u + c has a real solution u < 0
HasNegativeSolution(a, b, c) ==
    /\ (b * b) - (4 * a * c) >= 0
    /\ (a * c < 0 \/ a * b > 0)

\* C7: for an expression classified Biquadratic, if a solution u of the
\* substituted quadratic a u^2 + b u + c is negative, roots() returns no result.
C7_NegativeSolutionGivesNoResult ==
    (/\ found # NotCalled
     /\ equation_type(eq) = "Biquadratic"
     /\ HasNegativeSolution(Coef(eq, 4), Coef(eq, 2), Coef(eq, 0)))
        => found = RNone

\* C8: whenever roots() returns a result, through any dispatch path, the
\* returned sequence is non-empty and sorted in ascending (non-decreasing) order.
C8_RootsSortedNonEmpty ==
    found.kind = "Some" =>
        /\ Len(found.vals) >= 1
        /\ \A i, j \in DOMAIN found.vals : i < j => found.vals[i] <= found.vals[j]

\* the general search found a root and the deflated polynomial gave two more
C8_Witness ==
    /\ found.kind = "Some"
    /\ equation_type(eq) = "BigExp"
    /\ Len(found.vals) >= 3
    /\ found.vals[1] < found.vals[3]

(***************************************************************************)
(* Properties of parsing and of the operators.                             *)
(***************************************************************************)
\* the coefficient and exponent the grammar gives a term: an omitted coefficient
\* is 1, a minus sign negates it; no variable is exponent 0, a variable with
\* nothing after it exponent 1, otherwise the (signed) exponent written
StatedMono(t) ==
    LET c == IF t.coef = <<>> THEN 1 ELSE DigitsVal(t.coef, 0)
        e == IF t.var = <<>> THEN 0
             ELSE IF t.exp = <<>> THEN 1
             ELSE IF Head(t.exp) = "-" THEN 0 - DigitsVal(Tail(t.exp), 0)
             ELSE DigitsVal(t.exp, 0)
    IN  Mono(IF t.sign = <<"-">> THEN 0 - c ELSE c, e)

StatedMonos(ts) == [k \in DOMAIN ts |-> StatedMono(ts[k])]

\* C9: parsing a Polynomial from any string of the input grammar succeeds and
\* yields the collapse of the individual terms, each with the coefficient and
\* exponent that parsing it alone as a Monomial gives (an omitted coefficient
\* means 1, -1 after a bare minus; no variable means exponent 0; a variable with
\* nothing after it exponent 1; a signed exponent is that term's exponent).
C9_ParseAsStated ==
    /\ parsed.kind \in {"Ok", "Err"} => parsed = ParseOk(collapse(StatedMonos(terms)))
    /\ parsed.kind \in {"MonoOk", "MonoErr"} =>
          parsed.kind = "MonoOk" /\ parsed.vals = StatedMonos(terms)

\* C10: for every canonical p, p + zero == p and zero + p == p, and p + (-p) is
\* the zero expression, the value of Polynomial::default().
C10_AdditiveIdentity ==
    applied = "add" =>
        /\ rhs = PolyDefault => res = lhs
        /\ lhs = PolyDefault => res = rhs
        /\ rhs = PolyNeg(lhs) => res = PolyDefault

\* a Polynomial of three terms was added to its negation
C10_Witness ==
    /\ applied = "add"
    /\ Len(lhs) = 3
    /\ rhs = PolyNeg(lhs)
    /\ rhs # lhs
    /\ res = PolyDefault

\* C11: for all canonical p and q that are both non-zero, the max exponent of
\* p * q is the max exponent of p plus the max exponent of q; and if either
\* operand is the zero expression the product is the zero expression.
C11_MulDegreeLaw ==
    applied = "mul" =>
        /\ (lhs # PolyDefault /\ rhs # PolyDefault) =>
              /\ res # PolyDefault
              /\ max_exp(res).exp = max_exp(lhs).exp + max_exp(rhs).exp
        /\ (lhs = PolyDefault \/ rhs = PolyDefault) => res = PolyDefault

\* two Polynomials of two terms or more were multiplied and like terms combined
C11_Witness ==
    /\ applied = "mul"
    /\ Len(lhs) >= 2
    /\ Len(rhs) = 2
    /\ Len(res) < Len(lhs) * Len(rhs)
    /\ max_exp(res).exp = max_exp(lhs).exp + max_exp(rhs).exp

(***************************************************************************)
(* Properties of the root search.                                          *)
(***************************************************************************)
\* C12: if equation_type classifies an expression as Linear it has exactly 1 or 2
\* terms, so roots() never panics with 'is not a linear equation', and for a
\* two-term Linear expression the second term, used as c, is the constant term;
\* expressions holding terms with negative exponents included.
C12_LinearNeverPanics ==
    /\ eq_type = "Linear" =>
          /\ Len(eq) \in {1, 2}
          /\ Len(eq) = 2 => eq[2].exp = 0
    /\ found.kind # "Panic"

\* the value of p at x = v, for non-negative exponents
NonNegExps(p) == \A i \in DOMAIN p : p[i].exp >= 0

RECURSIVE Eval(_, _)
Eval(p, v) ==
    IF p = <<>> THEN 0 ELSE (Head(p).value * Pow(v, Head(p).exp)) + Eval(Tail(p), v)

\* C16: for every canonical p with non-negative exponents, every value in the
\* sequence returned by p.roots() is a root: p evaluated at it is exactly 0.
C16_ReturnedValuesAreRoots ==
    (found.kind = "Some" /\ NonNegExps(eq)) =>
        \A i \in DOMAIN found.vals : Eval(eq, found.vals[i]) = 0

\* the integer roots of p: each divides the constant term, or is 0
IntRoots(p) == {r \in (0 - EvenMaxVal)..EvenMaxVal : Eval(p, r) = 0}

\* C17: for every expression classified BigExp that has at least one integer
\* root (the root 0 of a zero constant term included), roots() returns a result
\* and the result contains at least one of the expression's integer roots.
C17_BigExpFindsAnIntegerRoot ==
    (/\ found.kind # "NotCalled"
     /\ equation_type(eq) = "BigExp"
     /\ NonNegExps(eq)
     /\ IntRoots(eq) # {}) =>
        /\ found.kind = "Some"
        /\ \E i \in DOMAIN found.vals : found.vals[i] \in IntRoots(eq)

\* the candidates in the stated order: the positive divisors of the constant
\* term c ascending, then their negations in the same order
StatedCandidates(c) ==
    LET D == {d \in 1..Abs(c) : Abs(c) % d = 0}
        asc == [i \in 1..Cardinality(D) |->
                   CHOOSE d \in D : Cardinality({e \in D : e < d}) = i - 1]
    IN  asc \o [i \in DOMAIN asc |-> 0 - asc[i]]

\* C13: in the BigExp root search the candidates are tried in the order 1..|c|
\* ascending over the positive divisors of the constant term c, then the
\* negations of those divisors in the same order, and the search stops at the
\* first candidate r at which the polynomial evaluates to zero: the reported root
\* is r and no candidate earlier in that order is a root; if no candidate is a
\* root the search returns no result.
C13_FirstRootInCandidateOrder ==
    LET order == StatedCandidates(Coef(Top, 0))
    IN  /\ spc = "found" =>
              \E k \in DOMAIN order :
                  /\ root = RSome(<<order[k]>>)
                  /\ Eval(Top, order[k]) = 0
                  /\ tried = SubSeq(order, 1, k - 1)
                  /\ \A j \in 1..(k - 1) : Eval(Top, order[j]) # 0
        /\ (spc = "done" /\ equation_type(Top) = "BigExp") =>
              /\ root = RNone
              /\ tried = order
              /\ \A j \in DOMAIN order : Eval(Top, order[j]) # 0

\* a negative root was found after three candidates that are none
C13_Witness ==
    /\ spc = "found"
    /\ Len(tried) >= 3
    /\ root.vals[1] < 0

\* C14: whenever find_root reports a root r of p (non-negative exponents), the
\* quotient q it keeps is canonical, has max exponent exactly one less than p's,
\* and p == (x - r) * q, coefficient by coefficient; the zero remainder of the
\* synthetic division is not kept as a term.
C14_DeflatedQuotient ==
    spc = "found" =>
        LET r == root.vals[1]
        IN  /\ Canonical(target)
            /\ NonNegExps(target)
            /\ max_exp(target).exp = max_exp(Top).exp - 1
            /\ \A e \in 0..max_exp(Top).exp :
                  Coef(Top, e) = Coef(target, e - 1) - (r * Coef(target, e))

\* a root other than 1 and -1 was found and a quotient of three terms kept
C14_Witness ==
    /\ spc = "found"
    /\ Abs(root.vals[1]) > 1
    /\ Len(target) >= 3

\* the nested calls are on strictly lower max exponents, hence on different
\* Polynomials, and there are at most as many as the degree of the first
DegreesDecrease ==
    /\ \A i, j \in DOMAIN stack : i < j => max_exp(stack[i]).exp > max_exp(stack[j]).exp
    /\ \A i, j \in DOMAIN stack : i < j => stack[i] # stack[j]
    /\ Len(stack) - 1 <= max_exp(stack[1]).exp

\* C15: roots() terminates on every expression: each recursive call made by the
\* BigExp strategy is on a deflated quotient whose max exponent is strictly
\* lower, so the recursion depth is at most the expression's degree and no
\* expression is solved twice in one call chain.
C15_RootsTerminates == []DegreesDecrease /\ <>(spc = "done")

\* roots() has come to its end two nested calls deep
C15_Witness ==
    /\ spc = "done"
    /\ Len(stack) = 3

====
